---- MODULE Spec2Model ----
(***************************************************************************)
(* Model of src/ar4.py: the account-based PDF extractor.  A text is a      *)
(* sequence of one-character strings; every regular expression of the      *)
(* script is an operator that matches character by character, as Python's  *)
(* re module does (greedy quantifiers, backtracking, \b, non-overlapping   *)
(* findall).  The script runs top to bottom once; pc is its position.      *)
(***************************************************************************)
EXTENDS Naturals, Sequences, FiniteSets, TLC

VARIABLES pages, full_text, blocks, idx, records, df, ui, pc

vars == <<pages, full_text, blocks, idx, records, df, ui, pc>>

(***************************************************************************)
(* Characters                                                              *)
(***************************************************************************)
DigitSeq == <<"0", "1", "2", "3", "4", "5", "6", "7", "8", "9">>

UpperSeq == <<"A", "B", "C", "D", "E", "F", "G", "H", "I", "J", "K", "L", "M",
              "N", "O", "P", "Q", "R", "S", "T", "U", "V", "W", "X", "Y", "Z">>

LowerSeq == <<"a", "b", "c", "d", "e", "f", "g", "h", "i", "j", "k", "l", "m",
              "n", "o", "p", "q", "r", "s", "t", "u", "v", "w", "x", "y", "z">>

\* The characters of the model in code point order (Python compares strings
\* by code point).
AsciiOrder == <<"\t", "\n", "\r", " ", "'", ",", "-", ".", "/">> \o DigitSeq
              \o <<":">> \o UpperSeq \o <<"_">> \o LowerSeq

Range(f) == {f[k] : k \in DOMAIN f}

DigitSet == Range(DigitSeq)

UpperSet == Range(UpperSeq)

LowerSet == Range(LowerSeq)

Ord == [c \in Range(AsciiOrder) |-> CHOOSE k \in DOMAIN AsciiOrder : AsciiOrder[k] = c]

IsDigit(c) == c \in DigitSet

IsUpper(c) == c \in UpperSet

IsLower(c) == c \in LowerSet

\* \w of a str pattern, on the characters of the model
IsWord(c) == IsDigit(c) \/ IsUpper(c) \/ IsLower(c) \/ c = "_"

\* \s, and the characters str.strip() and str.split() treat as whitespace
IsSpace(c) == c \in {" ", "\n", "\t", "\r"}

ToLower(c) == IF IsUpper(c) THEN LowerSeq[CHOOSE k \in 1..26 : UpperSeq[k] = c] ELSE c

ToUpper(c) == IF IsLower(c) THEN UpperSeq[CHOOSE k \in 1..26 : LowerSeq[k] = c] ELSE c

(***************************************************************************)
(* Strings                                                                 *)
(***************************************************************************)
Min(a, b) == IF a < b THEN a ELSE b

At(s, p) == IF p >= 1 /\ p <= Len(s) THEN s[p] ELSE ""

\* s[p-1 : q-1] of Python for 1-based p and exclusive end q
Slice(s, p, q) == SubSeq(s, p, q - 1)

HasPrefix(s, p, lit) ==
    /\ p + Len(lit) - 1 <= Len(s)
    /\ \A k \in 1..Len(lit) : s[p + k - 1] = lit[k]

\* \b at the position before character p
WordBoundary(s, p) == IsWord(At(s, p - 1)) # IsWord(At(s, p))

\* the first position at or after p that holds no whitespace (greedy \s*)
RECURSIVE SkipSpace(_, _)
SkipSpace(s, p) == IF IsSpace(At(s, p)) THEN SkipSpace(s, p + 1) ELSE p

\* \d{n} at p
DigitsAt(s, p, n) == \A k \in 0..(n - 1) : IsDigit(At(s, p + k))

\* str.strip()
RECURSIVE StripLeft(_)
StripLeft(s) == IF s # <<>> /\ IsSpace(Head(s)) THEN StripLeft(Tail(s)) ELSE s

RECURSIVE StripRight(_)
StripRight(s) ==
    IF s # <<>> /\ IsSpace(s[Len(s)]) THEN StripRight(SubSeq(s, 1, Len(s) - 1)) ELSE s

Strip(s) == StripRight(StripLeft(s))

\* str.split(): the maximal runs of non-whitespace characters
RECURSIVE SplitWs(_, _)
SplitWs(s, cur) ==
    IF s = <<>> THEN (IF cur = <<>> THEN <<>> ELSE <<cur>>)
    ELSE IF IsSpace(Head(s))
         THEN (IF cur = <<>> THEN <<>> ELSE <<cur>>) \o SplitWs(Tail(s), <<>>)
         ELSE SplitWs(Tail(s), Append(cur, Head(s)))

Words(s) == SplitWs(s, <<>>)

\* str.upper()
Upper(s) == [k \in 1..Len(s) |-> ToUpper(s[k])]

\* str.title(): a cased character that follows a cased one is lowered, any
\* other cased character is raised
Title(s) ==
    [k \in 1..Len(s) |->
        IF k > 1 /\ (IsUpper(s[k - 1]) \/ IsLower(s[k - 1]))
        THEN ToLower(s[k]) ELSE ToUpper(s[k])]

\* a < b for Python strings
StrLess(a, b) ==
    \E k \in 1..(Min(Len(a), Len(b)) + 1) :
        /\ \A j \in 1..(k - 1) : a[j] = b[j]
        /\ \/ k > Len(a) /\ k <= Len(b)
           \/ k <= Len(a) /\ k <= Len(b) /\ Ord[a[k]] < Ord[b[k]]

\* sorted(S) for a set S of strings
RECURSIVE Sorted(_)
Sorted(S) ==
    IF S = {} THEN <<>>
    ELSE LET m == CHOOSE x \in S : \A y \in S \ {x} : StrLess(x, y)
         IN  <<m>> \o Sorted(S \ {m})

\* sep.join(xs)
RECURSIVE Join(_, _)
Join(sep, xs) ==
    IF xs = <<>> THEN <<>>
    ELSE IF Len(xs) = 1 THEN xs[1]
    ELSE xs[1] \o sep \o Join(sep, Tail(xs))

\* max(xs, key=len): the first element of greatest length (xs non-empty)
MaxByLen(xs) ==
    xs[CHOOSE k \in 1..Len(xs) :
          /\ \A j \in 1..Len(xs) : Len(xs[j]) <= Len(xs[k])
          /\ \A j \in 1..(k - 1) : Len(xs[j]) < Len(xs[k])]

RECURSIVE Concat(_)
Concat(xs) == IF xs = <<>> THEN <<>> ELSE Head(xs) \o Concat(Tail(xs))

(***************************************************************************)
(* The patterns                                                            *)
(***************************************************************************)
AccountLit == <<"A", "c", "c", "o", "u", "n", "t", ":">>

\* Account:\s*\d{4} matches at p (the split pattern's lookahead, and the
\* head of the pattern of extract_date_of_service)
split_pattern(s, p) ==
    /\ HasPrefix(s, p, AccountLit)
    /\ DigitsAt(s, SkipSpace(s, p + Len(AccountLit)), 4)

\* account_pattern = Account:\s*(\d{4,5}) at p: the captured group, or <<>>
\* when the pattern does not match at p
account_pattern(s, p) ==
    IF ~split_pattern(s, p) THEN <<>>
    ELSE LET q == SkipSpace(s, p + Len(AccountLit))
         IN  IF IsDigit(At(s, q + 4)) THEN Slice(s, q, q + 5) ELSE Slice(s, q, q + 4)

\* account_pattern.search(block).group(1), or <<>> for no match
account_search(s) ==
    IF \E p \in 1..Len(s) : split_pattern(s, p)
    THEN account_pattern(s, CHOOSE p \in 1..Len(s) :
            /\ split_pattern(s, p)
            /\ \A q \in 1..(p - 1) : ~split_pattern(s, q))
    ELSE <<>>

\* date_pattern = \b\d{2}/\d{2}/\d{4}\b matches at p (10 characters)
date_pattern(s, p) ==
    /\ WordBoundary(s, p)
    /\ DigitsAt(s, p, 2) /\ At(s, p + 2) = "/"
    /\ DigitsAt(s, p + 3, 2) /\ At(s, p + 5) = "/"
    /\ DigitsAt(s, p + 6, 4)
    /\ WordBoundary(s, p + 10)

\* [A-Z0-9] under re.IGNORECASE
IsCptSuffixChar(c) == IsDigit(c) \/ IsUpper(c) \/ IsLower(c)

\* cpt_pattern as it would be without the optional modifier group
cpt_pattern_no_modifier(s, p) ==
    IF WordBoundary(s, p) /\ DigitsAt(s, p, 5) /\ WordBoundary(s, p + 5) THEN 5 ELSE 0

\* cpt_pattern = \b\d{5}(?:-[A-Z0-9]{2})?\b with IGNORECASE: the length of
\* the match at p (8 with the optional group, 5 without it when the group or
\* the \b after it fails), 0 for no match
cpt_pattern(s, p) ==
    IF ~(WordBoundary(s, p) /\ DigitsAt(s, p, 5)) THEN 0
    ELSE IF /\ At(s, p + 5) = "-"
            /\ IsCptSuffixChar(At(s, p + 6))
            /\ IsCptSuffixChar(At(s, p + 7))
            /\ WordBoundary(s, p + 8)
         THEN 8
    ELSE IF WordBoundary(s, p + 5) THEN 5
    ELSE 0

\* [A-Z ,.'\-]
IsUpperNameChar(c) == IsUpper(c) \/ c \in {" ", ",", ".", "'", "-"}

\* the end (exclusive) of the greedy run of [A-Z ,.'\-] from p
RECURSIVE UpperRunEnd(_, _)
UpperRunEnd(s, p) == IF IsUpperNameChar(At(s, p)) THEN UpperRunEnd(s, p + 1) ELSE p

\* \b[A-Z ,.'\-]{3,}\b at p: the length of the match, 0 for none.  The
\* greedy run gives characters back until a \b follows it.
upper_pattern(s, p) ==
    LET e == UpperRunEnd(s, p)
        ends == {q \in (p + 3)..e : WordBoundary(s, q)}
    IN  IF WordBoundary(s, p) /\ ends # {}
        THEN (CHOOSE q \in ends : \A r \in ends : r <= q) - p
        ELSE 0

\* [A-Z][a-z]+ at p: the end (exclusive) of the match, 0 for none
RECURSIVE LowerRunEnd(_, _)
LowerRunEnd(s, p) == IF IsLower(At(s, p)) THEN LowerRunEnd(s, p + 1) ELSE p

CapWordEnd(s, p) ==
    IF IsUpper(At(s, p)) /\ IsLower(At(s, p + 1)) THEN LowerRunEnd(s, p + 1) ELSE 0

\* , [A-Z][a-z]+(?: [A-Z]\.?)? at e: the end (exclusive), 0 for none
MixedTailEnd(s, e) ==
    IF At(s, e) = "," /\ At(s, e + 1) = " " /\ CapWordEnd(s, e + 2) # 0
    THEN LET f == CapWordEnd(s, e + 2)
         IN  IF At(s, f) = " " /\ IsUpper(At(s, f + 1))
             THEN (IF At(s, f + 2) = "." THEN f + 3 ELSE f + 2)
             ELSE f
    ELSE 0

\* (?: [A-Z][a-z]+)* then the tail, from the end e of a capitalised word:
\* one more word first (greedy), the tail when that path fails
RECURSIVE MixedRestEnd(_, _)
MixedRestEnd(s, e) ==
    LET more == IF At(s, e) = " " /\ CapWordEnd(s, e + 1) # 0
                THEN MixedRestEnd(s, CapWordEnd(s, e + 1)) ELSE 0
    IN  IF more # 0 THEN more ELSE MixedTailEnd(s, e)

\* [A-Z][a-z]+(?: [A-Z][a-z]+)*, [A-Z][a-z]+(?: [A-Z]\.?)? at p: the length
\* of the match, 0 for none
mixed_pattern(s, p) ==
    IF CapWordEnd(s, p) = 0 THEN 0
    ELSE LET e == MixedRestEnd(s, CapWordEnd(s, p))
         IN  IF e = 0 THEN 0 ELSE e - p

date_len(s, p) == IF date_pattern(s, p) THEN 10 ELSE 0

\* the length of the match of the named pattern at p, 0 for no match
MatchLen(pattern, s, p) ==
    CASE pattern = "cpt_pattern" -> cpt_pattern(s, p)
      [] pattern = "date_pattern" -> date_len(s, p)
      [] pattern = "upper_names" -> upper_pattern(s, p)
      [] pattern = "mixed_names" -> mixed_pattern(s, p)

\* re.findall for a pattern without groups: the non-overlapping matches
\* from left to right
RECURSIVE FindAll(_, _, _)
FindAll(pattern, s, p) ==
    IF p > Len(s) THEN <<>>
    ELSE LET n == MatchLen(pattern, s, p)
         IN  IF n > 0 THEN <<Slice(s, p, p + n)>> \o FindAll(pattern, s, p + n)
             ELSE FindAll(pattern, s, p + 1)

(***************************************************************************)
(* The helper functions                                                    *)
(***************************************************************************)
\* the ignore_words of extract_patient_name (it shadows the module's set)
ignore_words ==
    {<<"S", "E", "C", "O", "N", "D", "A", "R", "Y">>,
     <<"P", "R", "I", "M", "A", "R", "Y">>,
     <<"D", "O", "L">>,
     <<"P", "A", "Y">>,
     <<"I", "N", "S", "U", "R", "A", "N", "C", "E">>,
     <<"P", "P", "O">>,
     <<"P", "L", "A", "N">>,
     <<"T", "O", "T", "A", "L", "S">>,
     <<"B", "A", "L", "A", "N", "C", "E">>,
     <<"O", "V", "E", "R", "P", "D">>,
     <<"G", "E", "N", "E", "S", "I", "S", "C">>,
     <<"G", "E", "N", "E", "S", "I", "C", "A", "R", "E">>,
     <<"F", "L", "O", "R", "I", "D", "A">>,
     <<"U", "S", "A">>,
     <<"N", "O", "T">>,
     <<"U", "S", "E">>,
     <<"B", "C", "B", "S">>,
     <<"F", "B", "U">>}

\* the module's ignore_words, which no code reads
module_ignore_words ==
    {<<"S", "E", "C", "O", "N", "D", "A", "R", "Y">>,
     <<"P", "R", "I", "M", "A", "R", "Y">>,
     <<"D", "O", "L">>,
     <<"P", "A", "Y">>,
     <<"I", "N", "S", "U", "R", "A", "N", "C", "E">>,
     <<"P", "P", "O">>,
     <<"P", "L", "A", "N">>,
     <<"T", "O", "T", "A", "L", "S">>,
     <<"B", "A", "L", "A", "N", "C", "E">>,
     <<"O", "V", "E", "R", "P", "D">>,
     <<"G", "E", "N", "E", "S", "I", "C", "A", "R", "E">>,
     <<"Y", "E", "S">>,
     <<"N", "O">>,
     <<"F", "L", "O", "R", "I", "D", "A">>,
     <<"U", "S", "A">>}

upper_names(block) == FindAll("upper_names", block, 1)

clean_upper(block) ==
    LET kept == SelectSeq(upper_names(block),
                    LAMBDA n : /\ ~\E w \in Range(Words(n)) : w \in ignore_words
                               /\ Len(Words(n)) >= 2)
    IN  [k \in 1..Len(kept) |-> Strip(kept[k])]

mixed_names(block) == FindAll("mixed_names", block, 1)

mixed_clean(block) ==
    SelectSeq(mixed_names(block),
        LAMBDA m : ~\E w \in Range(Words(m)) : Upper(w) \in ignore_words)

\* extract_patient_name as it would be with the mixed-case tier tried first
extract_patient_name_mixed_first(block) ==
    IF mixed_clean(block) # <<>> THEN Strip(MaxByLen(mixed_clean(block)))
    ELSE IF clean_upper(block) # <<>> THEN Title(MaxByLen(clean_upper(block)))
    ELSE <<>>

extract_patient_name(block) ==
    IF clean_upper(block) # <<>> THEN Title(MaxByLen(clean_upper(block)))
    ELSE IF mixed_clean(block) # <<>> THEN Strip(MaxByLen(mixed_clean(block)))
    ELSE <<>>

\* re.search(r"Account:\s*\d{4}.*?\n(.*)", block): the position of the \n
\* that ends the marker's line, for the leftmost marker that a \n follows;
\* 0 for no match
account_line_match(block) ==
    LET starts == {p \in 1..Len(block) :
                      /\ split_pattern(block, p)
                      /\ \E q \in 1..Len(block) :
                            /\ q >= SkipSpace(block, p + Len(AccountLit)) + 4
                            /\ block[q] = "\n"}
    IN  IF starts = {} THEN 0
        ELSE LET p == CHOOSE x \in starts : \A y \in starts : x <= y
                 from == SkipSpace(block, p + Len(AccountLit)) + 4
             IN  CHOOSE q \in from..Len(block) :
                    /\ block[q] = "\n"
                    /\ \A r \in from..(q - 1) : block[r] # "\n"

\* group(1), the (.*) after that \n: up to the next \n or the end
RECURSIVE LineEnd(_, _)
LineEnd(s, p) == IF p > Len(s) \/ s[p] = "\n" THEN p ELSE LineEnd(s, p + 1)

possible_line(block) ==
    LET nl == account_line_match(block)
    IN  Slice(block, nl + 1, LineEnd(block, nl + 1))

\* extract_date_of_service as it would be without the look at the line after
\* the marker's line
extract_date_of_service_anywhere(block) ==
    LET dates == FindAll("date_pattern", block, 1)
    IN  IF dates # <<>> THEN dates[1] ELSE <<>>

extract_date_of_service(block) ==
    LET on_line == IF account_line_match(block) # 0
                   THEN FindAll("date_pattern", possible_line(block), 1) ELSE <<>>
        dates == FindAll("date_pattern", block, 1)
    IN  IF on_line # <<>> THEN on_line[1]
        ELSE IF dates # <<>> THEN dates[1]
        ELSE <<>>

cpt_codes(block) == FindAll("cpt_pattern", block, 1)

\* extract_cpt_codes as it would be without sorted(set(...))
extract_cpt_codes_as_found(block) == Join(<<",", " ">>, cpt_codes(block))

extract_cpt_codes(block) ==
    IF cpt_codes(block) = <<>> THEN <<>>
    ELSE Join(<<",", " ">>, Sorted(Range(cpt_codes(block))))

(***************************************************************************)
(* The script                                                              *)
(***************************************************************************)
\* full_text after the loop over pdf.pages: every page with text, each
\* followed by a newline
RECURSIVE extract_all_text(_)
extract_all_text(ps) ==
    IF ps = <<>> THEN <<>>
    ELSE (IF Head(ps) # <<>> THEN Head(ps) \o <<"\n">> ELSE <<>>)
         \o extract_all_text(Tail(ps))

\* the split as it would be with the pattern Account: and no lookahead: the
\* literal is consumed
RECURSIVE SplitConsuming(_, _, _)
SplitConsuming(s, start, p) ==
    IF p > Len(s) THEN <<Slice(s, start, Len(s) + 1)>>
    ELSE IF HasPrefix(s, p, AccountLit)
         THEN <<Slice(s, start, p)>> \o SplitConsuming(s, p + Len(AccountLit), p + Len(AccountLit))
         ELSE SplitConsuming(s, start, p + 1)

re_split_consuming(s) == SplitConsuming(s, 1, 1)

\* re.split(r"(?=Account:\s*\d{4})", s): a cut before every position where
\* the lookahead matches, position 0 included; nothing is consumed
RECURSIVE SplitFrom(_, _, _)
SplitFrom(s, start, p) ==
    IF p > Len(s) THEN <<Slice(s, start, Len(s) + 1)>>
    ELSE IF split_pattern(s, p)
         THEN <<Slice(s, start, p)>> \o SplitFrom(s, p, p + 1)
         ELSE SplitFrom(s, start, p + 1)

re_split(s) == SplitFrom(s, 1, 1)

\* df.drop_duplicates(subset=["Account Number"]) with keep="first", then
\* reset_index(drop=True), which leaves the rows and their order alone
RECURSIVE DropFrom(_, _)
DropFrom(rs, seen) ==
    IF rs = <<>> THEN <<>>
    ELSE IF Head(rs).account_no \in seen THEN DropFrom(Tail(rs), seen)
    ELSE <<Head(rs)>> \o DropFrom(Tail(rs), seen \cup {Head(rs).account_no})

\* drop_duplicates as it would be with keep="last"
RECURSIVE DropFromLast(_)
DropFromLast(rs) ==
    IF rs = <<>> THEN <<>>
    ELSE IF \E k \in 2..Len(rs) : rs[k].account_no = Head(rs).account_no
         THEN DropFromLast(Tail(rs))
         ELSE <<Head(rs)>> \o DropFromLast(Tail(rs))

drop_duplicates_keep_last(rs) == DropFromLast(rs)

\* the table as it would be without the drop_duplicates call
drop_duplicates_omitted(rs) == rs

drop_duplicates(rs) == DropFrom(rs, {})

NewRecord(block) ==
    [account_no |-> account_search(block),
     patient_name |-> extract_patient_name(block),
     date_of_service |-> extract_date_of_service(block),
     cpt_joined |-> extract_cpt_codes(block)]

ExtractText ==
    /\ pc = "extract_text"
    /\ full_text' = extract_all_text(pages)
    /\ pc' = "check_text"
    /\ UNCHANGED <<pages, blocks, idx, records, df, ui>>

\* if not full_text.strip(): st.error(...); st.stop()
NoTextStop ==
    /\ pc = "check_text"
    /\ Strip(full_text) = <<>>
    /\ ui' = ui \cup {"error: No text found in PDF."}
    /\ pc' = "stopped"
    /\ UNCHANGED <<pages, full_text, blocks, idx, records, df>>

SplitBlocks ==
    /\ pc = "check_text"
    /\ Strip(full_text) # <<>>
    /\ blocks' = re_split(full_text)
    /\ records' = <<>>
    /\ idx' = 1
    /\ pc' = "loop"
    /\ UNCHANGED <<pages, full_text, df, ui>>

\* the loop body as it would be if an empty patient name also skipped the block
block_outcome_name_gate(block) ==
    IF Strip(block) = <<>> THEN "blank"
    ELSE IF account_search(block) = <<>> THEN "no account"
    ELSE IF extract_cpt_codes(block) = <<>> \/ extract_patient_name(block) = <<>>
         THEN "no cpt"
    ELSE "append"

\* what the loop body (lines 115-135) does with a block
block_outcome(block) ==
    IF Strip(block) = <<>> THEN "blank"
    ELSE IF account_search(block) = <<>> THEN "no account"
    ELSE IF extract_cpt_codes(block) = <<>> THEN "no cpt"
    ELSE "append"

InLoop == pc = "loop" /\ idx <= Len(blocks)

\* if not block.strip(): continue
SkipBlankBlock ==
    /\ InLoop
    /\ block_outcome(blocks[idx]) = "blank"
    /\ idx' = idx + 1
    /\ UNCHANGED <<pages, full_text, blocks, records, df, ui, pc>>

\* if not acc_match: continue
SkipNoAccount ==
    /\ InLoop
    /\ block_outcome(blocks[idx]) = "no account"
    /\ idx' = idx + 1
    /\ UNCHANGED <<pages, full_text, blocks, records, df, ui, pc>>

\* if not cpt_joined: continue
SkipNoCpt ==
    /\ InLoop
    /\ block_outcome(blocks[idx]) = "no cpt"
    /\ idx' = idx + 1
    /\ UNCHANGED <<pages, full_text, blocks, records, df, ui, pc>>

AppendRecord ==
    /\ InLoop
    /\ block_outcome(blocks[idx]) = "append"
    /\ records' = Append(records, NewRecord(blocks[idx]))
    /\ idx' = idx + 1
    /\ UNCHANGED <<pages, full_text, blocks, df, ui, pc>>

BuildDataFrame ==
    /\ pc = "loop"
    /\ idx > Len(blocks)
    /\ df' = drop_duplicates(records)
    /\ pc' = "display"
    /\ UNCHANGED <<pages, full_text, blocks, idx, records, ui>>

\* the empty-table branch as it would be if it reused the no-text error
DisplayWarning_as_error ==
    /\ pc = "display"
    /\ df = <<>>
    /\ ui' = ui \cup {"error: No text found in PDF."}
    /\ pc' = "done"
    /\ UNCHANGED <<pages, full_text, blocks, idx, records, df>>

\* if df.empty: st.warning(...)
DisplayWarning ==
    /\ pc = "display"
    /\ df = <<>>
    /\ ui' = ui \cup {"warning: No valid account data extracted."}
    /\ pc' = "done"
    /\ UNCHANGED <<pages, full_text, blocks, idx, records, df>>

\* else: st.success, st.dataframe(df), the Excel sheet and its download button
DisplaySuccess ==
    /\ pc = "display"
    /\ df # <<>>
    /\ ui' = ui \cup {"success", "dataframe", "download_button"}
    /\ pc' = "done"
    /\ UNCHANGED <<pages, full_text, blocks, idx, records, df>>

Next ==
    \/ ExtractText
    \/ NoTextStop
    \/ SplitBlocks
    \/ SkipBlankBlock
    \/ SkipNoAccount
    \/ SkipNoCpt
    \/ AppendRecord
    \/ BuildDataFrame
    \/ DisplayWarning
    \/ DisplaySuccess

(***************************************************************************)
(* The documents.  A document is a sequence of at most MaxTokens tokens:   *)
(* text fragments and page breaks.  The fragments between two page breaks  *)
(* are the text pdfplumber extracts from one page.                         *)
(***************************************************************************)
MaxTokens == 4

PageBreak == <<"<page break>">>

RECURSIVE PagesFrom(_, _)
PagesFrom(toks, cur) ==
    IF toks = <<>> THEN <<cur>>
    ELSE IF Head(toks) = PageBreak THEN <<cur>> \o PagesFrom(Tail(toks), <<>>)
    ELSE PagesFrom(Tail(toks), cur \o Head(toks))

PagesOf(toks) == IF toks = <<>> THEN <<>> ELSE PagesFrom(toks, <<>>)

SeqsUpTo(T, n) == UNION {[1..k -> T] : k \in 0..n}

\* the state when the text extraction starts (line 24), for the documents
\* over the fragments T
InitOver(T) ==
    /\ pages \in {PagesOf(toks) : toks \in SeqsUpTo(T \cup {PageBreak}, MaxTokens)}
    /\ full_text = <<>>
    /\ blocks = <<>>
    /\ idx = 0
    /\ records = <<>>
    /\ df = <<>>
    /\ ui = {}
    /\ pc = "extract_text"

Acct1234 == <<"A", "c", "c", "o", "u", "n", "t", ":", " ", "1", "2", "3", "4">>

Acct56789 == <<"A", "c", "c", "o", "u", "n", "t", ":", " ", "5", "6", "7", "8", "9">>

Cpt99213 == <<" ", "9", "9", "2", "1", "3">>

Space == <<" ">>

\* documents for the assembler: repeated account numbers, blocks with and
\* without codes, blank pages
CoreTokens == {Acct1234, Acct56789, Cpt99213, Space}

Init == InitOver(CoreTokens)

Spec == Init /\ [][Next]_vars

\* documents for the segmenter and the CPT gate: markers put together from
\* their parts, with short and long numbers and a modifier after the number
SegTokens == {AccountLit, <<"1", "2", "3", "4">>, <<"5">>, Space, <<"-", "2", "A">>}

InitSeg == InitOver(SegTokens)

SpecSeg == InitSeg /\ [][Next]_vars

\* documents for extract_cpt_codes: repeated codes, modifiers in both cases,
\* a digit that lengthens a code
CptTokens == {Acct1234, Cpt99213, <<" ", "9", "9", "2", "1", "3", "-", "2", "a">>, <<" ", "9", "9", "2", "1", "3", "-", "2", "A">>, <<"7">>}

InitCpt == InitOver(CptTokens)

SpecCpt == InitCpt /\ [][Next]_vars

\* documents for extract_date_of_service: dates on the marker's line, on
\* the line after it and later, a digit that spoils a date or the number
DateTokens == {Acct56789, <<" ", "0", "1", "/", "0", "2", "/", "2", "0", "2", "4">>, <<" ", "0", "3", "/", "0", "4", "/", "2", "0", "2", "5">>, <<"7">>}

InitDate == InitOver(DateTokens)

SpecDate == InitDate /\ [][Next]_vars

\* documents for extract_patient_name: uppercase runs of equal length, an
\* ignore-listed word, a mixed-case name, a mixed-case ignore-listed word
NameTokens == {Acct56789, <<" ", "D", "O", "E", " ", "J", "O">>, <<" ", "A", "L", " ", "L", "E", "E">>, <<" ", "P", "P", "O">>, <<" ", "L", "e", "e", ",", " ", "A", "l">>, <<"P", "p", "o">>}

InitName == InitOver(NameTokens)

SpecName == InitName /\ [][Next]_vars

(***************************************************************************)
(* Properties.  What they say of the text is stated on full_text itself,   *)
(* not on the script's intermediate values.                                *)
(***************************************************************************)
\* an account marker starts at p: Account:, optional whitespace, at least
\* four digits
IsAccountMarker(s, p) ==
    /\ HasPrefix(s, p, AccountLit)
    /\ \E q \in (p + Len(AccountLit))..(Len(s) + 1) :
          /\ \A r \in (p + Len(AccountLit))..(q - 1) : IsSpace(s[r])
          /\ DigitsAt(s, q, 4)

Markers(s) == {p \in 1..Len(s) : IsAccountMarker(s, p)}

\* the text from the marker at p up to the next marker (or the end)
BlockTextAt(s, p) ==
    LET later == {q \in Markers(s) : q > p}
    IN  IF later = {} THEN Slice(s, p, Len(s) + 1)
        ELSE Slice(s, p, CHOOSE q \in later : \A r \in later : q <= r)

Blank(s) == \A k \in 1..Len(s) : IsSpace(s[k])

HasFiveDigitRun(s) == \E p \in 1..Len(s) : DigitsAt(s, p, 5)

Least(S) == CHOOSE x \in S : \A y \in S : x <= y

\* the blocks the loop has gone through
Processed == SubSeq(blocks, 1, idx - 1)

\* C1: the final record table never holds two records with the same
\* Account Number.
C1_UniqueAccountNumbers ==
    \A m, n \in 1..Len(df) : m < n => df[m].account_no # df[n].account_no

C1_Witness == pc = "done" /\ Len(df) >= 2 /\ Len(records) > Len(df)

\* blocks i < j are the only two blocks carrying their account number, and
\* each carries CPT codes, the two differently
TwoBlocksDifferentCodes(i, j) ==
    /\ i < j
    /\ account_search(blocks[i]) # <<>>
    /\ \A k \in 1..Len(blocks) :
          account_search(blocks[k]) = account_search(blocks[i]) <=> k \in {i, j}
    /\ extract_cpt_codes(blocks[i]) # <<>>
    /\ extract_cpt_codes(blocks[j]) # <<>>
    /\ extract_cpt_codes(blocks[i]) # extract_cpt_codes(blocks[j])

\* C2: when two blocks carry one account number with different CPT codes,
\* the table holds exactly one record for the number, and all its fields
\* are those of the earlier block.
C2_FirstBlockWins ==
    pc = "done" =>
        \A i, j \in 1..Len(blocks) :
            TwoBlocksDifferentCodes(i, j) =>
                LET rows == {n \in 1..Len(df) : df[n].account_no = account_search(blocks[i])}
                IN  /\ Cardinality(rows) = 1
                    /\ \A n \in rows :
                          /\ df[n].cpt_joined = extract_cpt_codes(blocks[i])
                          /\ df[n].patient_name = extract_patient_name(blocks[i])
                          /\ df[n].date_of_service = extract_date_of_service(blocks[i])

C2_Witness ==
    pc = "done" /\ \E i, j \in 1..Len(blocks) : TwoBlocksDifferentCodes(i, j)

\* the first marker of the text carrying account number a
FirstMarker(a) ==
    Least({p \in Markers(full_text) : account_pattern(full_text, p) = a})

\* the first marker carrying a whose block holds a CPT code
FirstMarkerWithCodes(a) ==
    Least({p \in Markers(full_text) :
              /\ account_pattern(full_text, p) = a
              /\ cpt_codes(BlockTextAt(full_text, p)) # <<>>})

\* C3 as stated: the records are in the order of the first markers carrying
\* their account numbers.
C3_FirstSeenOrder ==
    pc = "done" =>
        \A m, n \in 1..Len(df) :
            m < n => FirstMarker(df[m].account_no) < FirstMarker(df[n].account_no)

\* C3 amended: the records are in the order of the first markers carrying
\* their account numbers among the markers whose block holds a CPT code.
C3_FirstRecordOrder ==
    pc = "done" =>
        \A m, n \in 1..Len(df) :
            m < n => FirstMarkerWithCodes(df[m].account_no)
                        < FirstMarkerWithCodes(df[n].account_no)

C3_Witness ==
    /\ pc = "done"
    /\ Len(df) >= 2
    /\ \E n \in 1..Len(df) :
          FirstMarker(df[n].account_no) < FirstMarkerWithCodes(df[n].account_no)

NoTextError == {"error: No text found in PDF."}

NoDataWarning == {"warning: No valid account data extracted."}

TableShown == {"success", "dataframe", "download_button"}

\* C5: the run ends in exactly one of three ways: blank text stops with the
\* no-text error before any segmentation and builds no table; non-blank text
\* from which no block yields a record (no marker at all in particular) ends
\* with an empty table and the no-data warning; any other text ends with a
\* non-empty table, shown and offered for download, and no warning.
C5_ThreeOutcomes ==
    /\ pc = "stopped" =>
          /\ Blank(full_text)
          /\ ui = NoTextError
          /\ blocks = <<>> /\ records = <<>> /\ df = <<>>
    /\ pc \notin {"extract_text", "check_text", "stopped"} => ~Blank(full_text)
    /\ pc = "done" =>
          IF \A p \in Markers(full_text) : cpt_codes(BlockTextAt(full_text, p)) = <<>>
          THEN df = <<>> /\ ui = NoDataWarning
          ELSE df # <<>> /\ ui = TableShown

C5_Witness == pc = "done" /\ Markers(full_text) # {} /\ ui = NoDataWarning

\* C6: a block yields a candidate record exactly when it holds an account
\* marker and extract_cpt_codes of it is not empty, whatever its name and
\* date; a block with an account number and no five digits in a row yields
\* none.
C6_RecordIffAccountAndCodes ==
    LET yielding == SelectSeq(Processed,
                        LAMBDA b : Markers(b) # {} /\ extract_cpt_codes(b) # <<>>)
    IN  /\ Len(records) = Len(yielding)
        /\ \A k \in 1..Len(records) :
              /\ records[k].account_no = account_search(yielding[k])
              /\ records[k].cpt_joined = extract_cpt_codes(yielding[k])
        /\ \A b \in Range(Processed) :
              Markers(b) # {} /\ ~HasFiveDigitRun(b) => b \notin Range(yielding)

C6_Witness ==
    /\ pc = "done"
    /\ \E k \in 1..Len(records) :
          records[k].patient_name = <<>> /\ records[k].date_of_service = <<>>
    /\ \E b \in Range(Processed) : Markers(b) # {} /\ ~HasFiveDigitRun(b)

\* a block the loop turns into a record: it holds a marker and a CPT code
Yields(b) == Markers(b) # {} /\ cpt_codes(b) # <<>>

\* the record of the k-th block, a block that yields one
RecordOf(k) == records[Cardinality({j \in 1..k : Yields(blocks[j])})]

\* every processed block that yields a record has its record
RecordsMatchBlocks ==
    Len(records) = Cardinality({j \in 1..Len(Processed) : Yields(blocks[j])})

\* s.split(sep) of Python for a non-empty separator
RECURSIVE SplitOnFrom(_, _, _, _)
SplitOnFrom(s, sep, start, p) ==
    IF p > Len(s) THEN <<Slice(s, start, Len(s) + 1)>>
    ELSE IF HasPrefix(s, p, sep)
         THEN <<Slice(s, start, p)>> \o SplitOnFrom(s, sep, p + Len(sep), p + Len(sep))
         ELSE SplitOnFrom(s, sep, start, p + 1)

SplitOn(s, sep) == SplitOnFrom(s, sep, 1, 1)

CommaSpace == <<",", " ">>

IsAlnum(c) == IsDigit(c) \/ IsUpper(c) \/ IsLower(c)

\* five digits, optionally followed by a hyphen and two alphanumerics
IsCptShape(c) ==
    /\ Len(c) \in {5, 8}
    /\ \A k \in 1..5 : IsDigit(c[k])
    /\ Len(c) = 8 => c[6] = "-" /\ IsAlnum(c[7]) /\ IsAlnum(c[8])

\* C4: the CPT Codes of every record, split on ", ", are a non-empty
\* sequence of codes of the CPT shape in strictly ascending order.
C4_CodesSortedDistinct ==
    \A k \in 1..Len(records) :
        LET codes == SplitOn(records[k].cpt_joined, CommaSpace)
        IN  /\ records[k].cpt_joined # <<>>
            /\ \A n \in 1..Len(codes) : IsCptShape(codes[n])
            /\ \A n \in 1..(Len(codes) - 1) : StrLess(codes[n], codes[n + 1])

\* a record of three codes that the block holds in another order, two of
\* them apart only in the case of the modifier
C4_Witness ==
    \E k \in 1..Len(records) :
        LET codes == SplitOn(records[k].cpt_joined, CommaSpace)
        IN  /\ Len(codes) = 3
            /\ Upper(codes[2]) = Upper(codes[3])
            /\ \E j \in 1..Len(Processed) :
                  Yields(blocks[j]) /\ RecordOf(j) = records[k]
                  /\ cpt_codes(blocks[j]) # codes

\* the lines of s: the text between its newlines
Lines(s) == SplitOn(s, <<"\n">>)

\* the line (1-based) that holds position p of s
LineOf(s, p) == 1 + Cardinality({q \in 1..(p - 1) : s[q] = "\n"})

DatesIn(s) == {p \in 1..Len(s) : date_pattern(s, p)}

FirstDateIn(s) == IF DatesIn(s) = {} THEN <<>> ELSE Slice(s, Least(DatesIn(s)), Least(DatesIn(s)) + 10)

\* the line of the block's marker: the line where the marker's first four
\* digits end
MarkerLine(b) ==
    LET p == Least(Markers(b))
        q == Least({r \in (p + Len(AccountLit))..Len(b) : IsDigit(b[r])})
    IN  LineOf(b, q + 3)

\* the date C7 describes for a block that holds a marker
DateByLines(b) ==
    LET ls == Lines(b)
        m == MarkerLine(b)
    IN  IF m < Len(ls) /\ DatesIn(ls[m + 1]) # {} THEN FirstDateIn(ls[m + 1])
        ELSE FirstDateIn(b)

\* C7: the date of a record is the first date on the line after the
\* marker's line when that line holds one, whatever the marker's line holds;
\* the first date of the block otherwise; empty exactly when the block holds
\* no date.
C7_DateFromNextLine ==
    /\ RecordsMatchBlocks
    /\ \A k \in 1..Len(Processed) :
          Yields(blocks[k]) =>
              /\ RecordOf(k).date_of_service = DateByLines(blocks[k])
              /\ RecordOf(k).date_of_service = <<>> <=> DatesIn(blocks[k]) = {}

\* a block with a date on the marker's line and another one on the next line
C7_Witness ==
    \E k \in 1..Len(Processed) :
        /\ Yields(blocks[k])
        /\ Len(Lines(blocks[k])) > MarkerLine(blocks[k])
        /\ DatesIn(Lines(blocks[k])[MarkerLine(blocks[k])]) # {}
        /\ DatesIn(Lines(blocks[k])[MarkerLine(blocks[k]) + 1]) # {}
        /\ RecordOf(k).date_of_service # FirstDateIn(blocks[k])

\* an uppercase run survives: at least two tokens, none ignore-listed
Survives(run) ==
    /\ Len(Words(run)) >= 2
    /\ \A w \in Range(Words(run)) : w \notin ignore_words

\* a mixed-case match survives: no token is ignore-listed once uppercased
SurvivesMixed(m) == \A w \in Range(Words(m)) : Upper(w) \notin ignore_words

\* the longest string of xs, the earliest of the longest
LongestEarliest(xs) ==
    LET longest == {k \in 1..Len(xs) : \A j \in 1..Len(xs) : Len(xs[j]) <= Len(xs[k])}
    IN  xs[Least(longest)]

\* the name C8 describes
NameByTiers(b) ==
    LET tier1 == SelectSeq(upper_names(b), Survives)
        tier2 == SelectSeq(mixed_names(b), SurvivesMixed)
    IN  IF tier1 # <<>>
        THEN Title(LongestEarliest([k \in 1..Len(tier1) |-> Strip(tier1[k])]))
        ELSE IF tier2 # <<>> THEN LongestEarliest(tier2)
        ELSE <<>>

\* C8: the name of a record is the title-cased longest surviving uppercase
\* run (the earliest on a tie) whenever one survives, whatever the mixed-case
\* matches; otherwise the longest surviving mixed-case match, or empty.
C8_UppercaseTierFirst ==
    /\ RecordsMatchBlocks
    /\ \A k \in 1..Len(Processed) :
          Yields(blocks[k]) => RecordOf(k).patient_name = NameByTiers(blocks[k])

\* a block where two uppercase runs of one length survive and a mixed-case
\* match survives too
C8_Witness ==
    \E k \in 1..Len(Processed) :
        LET tier1 == SelectSeq(upper_names(blocks[k]), Survives)
        IN  /\ Yields(blocks[k])
            /\ Len(tier1) = 2
            /\ Strip(tier1[1]) # Strip(tier1[2])
            /\ Len(Strip(tier1[1])) = Len(Strip(tier1[2]))
            /\ SelectSeq(mixed_names(blocks[k]), SurvivesMixed) # <<>>
            /\ RecordOf(k).patient_name = Title(Strip(tier1[1]))

\* C9: the blocks put together are the text; every block but the first
\* starts with an account marker; no block holds a marker anywhere else.
C9_SplitKeepsText ==
    pc \in {"loop", "display", "done"} =>
        /\ Concat(blocks) = full_text
        /\ \A k \in 2..Len(blocks) : IsAccountMarker(blocks[k], 1)
        /\ Markers(blocks[1]) = {}
        /\ \A k \in 2..Len(blocks) : Markers(blocks[k]) = {1}

\* a text before the first marker, and a marker with a newline between
\* Account: and its digits
C9_Witness ==
    /\ pc = "done"
    /\ Len(blocks) = 2
    /\ blocks[1] # <<>>
    /\ At(blocks[2], Len(AccountLit) + 1) = "\n"

\* the position of the account number of a block that holds a marker
NumberAt(b) == SkipSpace(b, Least(Markers(b)) + Len(AccountLit))

\* a token of five digits starts at p
IsFiveDigitToken(b, p) ==
    DigitsAt(b, p, 5) /\ WordBoundary(b, p) /\ WordBoundary(b, p + 5)

\* the block's number has five digits, and a non-word character or the end
\* of the text follows it
FiveDigitAccount(b) ==
    /\ Markers(b) # {}
    /\ Len(account_search(b)) = 5
    /\ ~IsWord(At(b, NumberAt(b) + 5))

\* a block with a four-digit number and no token of five digits yields no
\* record
FourDigitAccountDropped ==
    \A k \in 1..Len(Processed) :
        /\ Markers(blocks[k]) # {}
        /\ Len(account_search(blocks[k])) = 4
        /\ ~\E p \in 1..Len(blocks[k]) : IsFiveDigitToken(blocks[k], p)
        => ~Yields(blocks[k])

\* C10 as stated: a block with a five-digit account number always yields a
\* record, and the number is one of its CPT codes; a block with a four-digit
\* number and no five-digit token yields none.
C10_AccountNumberIsACode ==
    /\ RecordsMatchBlocks
    /\ FourDigitAccountDropped
    /\ \A k \in 1..Len(Processed) :
          FiveDigitAccount(blocks[k]) =>
              /\ Yields(blocks[k])
              /\ RecordOf(k).account_no = account_search(blocks[k])
              /\ account_search(blocks[k])
                    \in Range(SplitOn(RecordOf(k).cpt_joined, CommaSpace))

\* a hyphen and two alphanumerics follow the block's number, and a word
\* boundary follows them
ModifierFollows(b) ==
    /\ At(b, NumberAt(b) + 5) = "-"
    /\ IsAlnum(At(b, NumberAt(b) + 6))
    /\ IsAlnum(At(b, NumberAt(b) + 7))
    /\ WordBoundary(b, NumberAt(b) + 8)

\* C10 amended: a block with a five-digit account number always yields a
\* record, and its CPT codes hold the number itself, or the number with its
\* modifier when a hyphen and two alphanumerics follow the number; a block
\* with a four-digit number and no five-digit token yields none.
C10_AccountNumberStartsACode ==
    /\ RecordsMatchBlocks
    /\ FourDigitAccountDropped
    /\ \A k \in 1..Len(Processed) :
          FiveDigitAccount(blocks[k]) =>
              /\ Yields(blocks[k])
              /\ RecordOf(k).account_no = account_search(blocks[k])
              /\ (IF ModifierFollows(blocks[k])
                  THEN Slice(blocks[k], NumberAt(blocks[k]), NumberAt(blocks[k]) + 8)
                  ELSE account_search(blocks[k]))
                    \in Range(SplitOn(RecordOf(k).cpt_joined, CommaSpace))

C10_Witness ==
    \E k \in 1..Len(Processed) :
        /\ FiveDigitAccount(blocks[k])
        /\ ModifierFollows(blocks[k])
        /\ account_search(blocks[k])
              \notin Range(SplitOn(RecordOf(k).cpt_joined, CommaSpace))

====
